---- MODULE Spec2Model ----
(***************************************************************************)
(* Model of the recursive ray tracer: Tracer::trace and Tracer::traceRay   *)
(* with their helpers (Tracer.cpp) and the FrameBuffer (FrameBuffers.hpp). *)
(*                                                                         *)
(* Numbers.  Every Vec3 of the model lies on the x axis, (x, 0, 0), and is *)
(* written as the integer x; ray directions and normals are the unit       *)
(* vectors -1 and +1.  Color channels and material weights are             *)
(* integer-valued floats, on which float arithmetic is exact.  On that     *)
(* subspace dot, normalize, direction and distance are the functions       *)
(* below.  Scenes, cameras and lights are chosen so that no vector that    *)
(* the code normalizes is the zero vector (no light and no camera lies on  *)
(* a surface).                                                             *)
(***************************************************************************)
EXTENDS Integers, Sequences, FiniteSets, TLC

(* ------------------------------ bounds -------------------------------- *)
MaxObjects == 2
MaxLights == 1
MaxReflections == 3
Width == 2
Height == 2
NumWorkers == 2
MaxPasses == 2

(* ------------------------------ Color --------------------------------- *)
Black == <<0, 0, 0>>
SkyBlue == <<0, 1, 1>>
Purple == <<1, 0, 1>>
White == <<1, 1, 1>>
Green == <<0, 1, 0>>
Red == <<1, 0, 0>>
Blue == <<0, 0, 1>>

\* component-wise arithmetic; each operand is bound once, as a value
ColorAdd(a, b) ==
    CHOOSE c \in {<<x[1] + y[1], x[2] + y[2], x[3] + y[3]>> : x \in {a}, y \in {b}} : TRUE

ColorMul(a, b) ==
    CHOOSE c \in {<<x[1] * y[1], x[2] * y[2], x[3] * y[3]>> : x \in {a}, y \in {b}} : TRUE

ColorScale(s, a) ==
    CHOOSE c \in {<<s * x[1], s * x[2], s * x[3]>> : x \in {a}} : TRUE

(* ------------------------------- Math --------------------------------- *)
\* Math::INF, above every finite ray parameter t
INF == 1000000

max(a, b) == IF a < b THEN b ELSE a

dot(a, b) == a * b

\* length of v is |v|; v is never the zero vector here
normalize(v) == IF v > 0 THEN 1 ELSE IF v < 0 THEN -1 ELSE 0

direction(from, to) == normalize(to - from)

distance(a, b) == IF a < b THEN b - a ELSE a - b

RECURSIVE pow(_, _)
pow(base, exponent) == IF exponent = 0 THEN 1 ELSE base * pow(base, exponent - 1)

(* ----------------------------- Material ------------------------------- *)
\* Main.cpp's matteGreen: weights (1, 0), green colors
MatteGreen ==
    [ambientColor |-> Green, diffuseColor |-> Green, specularColor |-> Green,
     shininess |-> 1, intrinsity |-> 1, reflectivity |-> 0]

\* reflectivity 1, intrinsic weight 0
Mirror ==
    [ambientColor |-> Red, diffuseColor |-> Red, specularColor |-> White,
     shininess |-> 1, intrinsity |-> 0, reflectivity |-> 1]

\* both weights positive
Glossy ==
    [ambientColor |-> Blue, diffuseColor |-> Red, specularColor |-> Blue,
     shininess |-> 2, intrinsity |-> 1, reflectivity |-> 1]

Materials == {MatteGreen, Mirror, Glossy}

(* ------------------------- Scene, Light, Camera ----------------------- *)
\* spheres centred on the x axis: surface points center - radius, center + radius
Centers == {0, 5}

Spheres == [center : Centers, radius : {1}, material : Materials]

LightPositions == {3}

Lights == [position : LightPositions, intensity : {White}]

SeqsUpTo(S, n) == UNION {[1..k -> S] : k \in 0..n}

Scenes == [objects : SeqsUpTo(Spheres, MaxObjects), lights : SeqsUpTo(Lights, MaxLights)]

getNumObjects(s) == Len(s.objects)

getObject(s, index) == s.objects[index]

getNumLights(s) == Len(s.lights)

getLight(s, index) == s.lights[index]

\* cameras standing between and outside the spheres, looking along the axis
Cameras == [position : {-3, 2}, nearClip : {1}]

Tracers ==
    [shadowColor : {Purple}, backgroundColor : {SkyBlue}, shadowBias : {0, 1},
     reflectionBias : {-1, 1}, maxNumReflections : 0..MaxReflections]

(* ------------------------ Ray and Intersection ------------------------ *)
Ray(origin, dir) == [origin |-> origin, direction |-> dir]

\* the null object pointer of a value-initialised Intersection
NullObject == 0

\* Intersection{}
NoIntersection == [object |-> NullObject, point |-> 0, normal |-> 0, t |-> 0]

\* Primitive::intersect for a sphere on the axis: the nearest surface point at
\* a positive parameter t, with its outward unit normal; object is the
\* primitive's identity, its place in the scene
intersect(s, index, ray) ==
    LET obj == getObject(s, index)
        tNear == (obj.center - obj.radius - ray.origin) * ray.direction
        tFar == (obj.center + obj.radius - ray.origin) * ray.direction
        tHit == IF tNear > 0 /\ (tFar <= 0 \/ tNear <= tFar) THEN tNear ELSE tFar
        point == ray.origin + tHit * ray.direction
    IN  IF tHit <= 0
        THEN [hit |-> FALSE, intersection |-> NoIntersection]
        ELSE [hit |-> TRUE,
              intersection |-> [object |-> index, point |-> point,
                                normal |-> normalize(point - obj.center), t |-> tHit]]

material(s, intersection) == getObject(s, intersection.object).material

(* ------------------------------ Tracer -------------------------------- *)
\* mutant of Nearer: a later primitive at the same t replaces the earlier one
NearerOrEqual(found, tClosest) == found.hit /\ found.intersection.t <= tClosest

\* the loop body's condition: this primitive is hit nearer than the best so far
Nearer(found, tClosest) == found.hit /\ found.intersection.t < tClosest

\* the for loop of findNearestIntersection, from index on
RECURSIVE NearestLoop(_, _, _, _, _)
NearestLoop(s, ray, index, tClosest, closestIntersection) ==
    IF index > getNumObjects(s)
    THEN closestIntersection
    ELSE LET found == intersect(s, index, ray)
         IN  IF Nearer(found, tClosest)
             THEN NearestLoop(s, ray, index + 1, found.intersection.t, found.intersection)
             ELSE NearestLoop(s, ray, index + 1, tClosest, closestIntersection)

\* returns the bool and the value of the reference argument result afterwards
findNearestIntersection(s, ray, result) ==
    LET closestIntersection == NearestLoop(s, ray, 1, INF, NoIntersection)
    IN  IF closestIntersection.object = NullObject
        THEN [found |-> FALSE, result |-> result]
        ELSE [found |-> TRUE, result |-> closestIntersection]

\* reflect the ray, offset along the reflected direction
reflectRay(t, ray, intersection) ==
    LET reflectedDirection ==
            normalize((-1) * ray.direction
                      + 2 * dot(ray.direction, intersection.normal) * intersection.normal)
    IN  Ray(intersection.point + t.reflectionBias * reflectedDirection, reflectedDirection)

\* the test of isInShadow's loop body for one primitive
Occludes(s, index, shadowRay, intersection, light, distanceToLight) ==
    LET found == intersect(s, index, shadowRay)
    IN  /\ found.hit
        /\ found.intersection.object # intersection.object
        /\ distance(found.intersection.point, light.position) < distanceToLight

\* the for loop of isInShadow, from index on, with its early return
RECURSIVE ShadowLoop(_, _, _, _, _, _)
ShadowLoop(s, index, shadowRay, intersection, light, distanceToLight) ==
    IF index > getNumObjects(s)
    THEN FALSE
    ELSE IF Occludes(s, index, shadowRay, intersection, light, distanceToLight)
         THEN TRUE
         ELSE ShadowLoop(s, index + 1, shadowRay, intersection, light, distanceToLight)

ShadowRay(t, intersection, light) ==
    Ray(intersection.point + t.shadowBias * intersection.normal,
        direction(intersection.point, light.position))

isInShadow(t, intersection, light, s) ==
    LET shadowRay == ShadowRay(t, intersection, light)
        distanceToLight == distance(shadowRay.origin, light.position)
    IN  ShadowLoop(s, 1, shadowRay, intersection, light, distanceToLight)

computeDiffuseColor(s, intersection, light) ==
    LET directionToLight == direction(intersection.point, light.position)
        strengthAtLightAngle == max(0, dot(intersection.normal, directionToLight))
    IN  ColorScale(strengthAtLightAngle, material(s, intersection).diffuseColor)

computeSpecularColor(s, intersection, light, cam) ==
    LET directionToCam == direction(intersection.point, cam.position)
        halfwayVec == normalize(directionToCam + light.position)
        strengthAtCamAngle == max(0, dot(intersection.normal, halfwayVec))
    IN  ColorScale(pow(strengthAtCamAngle, material(s, intersection).shininess),
                   material(s, intersection).specularColor)

computeIntensityAtPoint(light, point) == light.intensity

\* mutant of LightContribution: the shadow test is skipped, every light is lit
LightContributionLit(t, s, cam, intersection, light) ==
    ColorMul(computeIntensityAtPoint(light, intersection.point),
             ColorAdd(computeDiffuseColor(s, intersection, light),
                      computeSpecularColor(s, intersection, light, cam)))

\* one light's term of the loop over the lights
LightContribution(t, s, cam, intersection, light) ==
    IF ~isInShadow(t, intersection, light, s)
    THEN ColorMul(computeIntensityAtPoint(light, intersection.point),
                  ColorAdd(computeDiffuseColor(s, intersection, light),
                           computeSpecularColor(s, intersection, light, cam)))
    ELSE t.shadowColor

\* the loop over the lights, from index on
RECURSIVE LightLoop(_, _, _, _, _, _)
LightLoop(t, s, cam, intersection, index, nonReflectedColor) ==
    IF index > getNumLights(s)
    THEN nonReflectedColor
    ELSE LightLoop(t, s, cam, intersection, index + 1,
                   ColorAdd(nonReflectedColor,
                            LightContribution(t, s, cam, intersection, getLight(s, index))))

\* ambient color plus every light's term
NonReflectedColor(t, s, cam, intersection) ==
    LightLoop(t, s, cam, intersection, 1, material(s, intersection).ambientColor)

\* the blend traceRay returns
Blend(t, s, cam, intersection, reflectedColor) ==
    ColorAdd(ColorScale(material(s, intersection).intrinsity,
                        NonReflectedColor(t, s, cam, intersection)),
             ColorScale(material(s, intersection).reflectivity, reflectedColor))

\* mutant of DepthExceeded: the cutoff is the largest depth, not the configured one
DepthExceededDefault(t, iteration) == iteration >= MaxReflections

\* mutant of DepthExceeded: the cutoff comes one call late
DepthExceededLate(t, iteration) == iteration > t.maxNumReflections

\* the recursion cutoff at the head of traceRay
DepthExceeded(t, iteration) == iteration >= t.maxNumReflections

\* mutant of MissColor: a miss is painted black
MissColorBlack(t) == Black

\* what traceRay returns for a ray that hits nothing
MissColor(t) == t.backgroundColor

Reflective(s, intersection) == material(s, intersection).reflectivity > 0

(* ---------------------------- FrameBuffer ----------------------------- *)
\* FrameBuffer(width, height, defaultColor): height rows of width cells
FrameBuffer(width, height, defaultColor) ==
    [width |-> width, height |-> height,
     pixels |-> [row \in 0..(height - 1) |-> [col \in 0..(width - 1) |-> defaultColor]]]

\* mutant of setColor: the color is added to what the cell holds
setColorAdding(fb, row, col, color) ==
    [fb EXCEPT !.pixels[row][col] = ColorAdd(@, color)]

\* pixels[row][col] = color; the tracer calls it setPixel
setColor(fb, row, col, color) == [fb EXCEPT !.pixels[row][col] = color]

\* static_cast<unsigned char>(x): the truncated value when it fits; outside
\* 0..255 the conversion is undefined and the build decides what is stored
CastModes == {"wrap", "saturate"}

ToUnsignedChar(mode, x) ==
    IF x >= 0 /\ x <= 255
    THEN x
    ELSE IF mode = "wrap" THEN x % 256 ELSE IF x < 0 THEN 0 ELSE 255

\* the bytes written after the header, from the k-th pixel of the file on;
\* file row 0 is buffer row height - 1
RECURSIVE FileBytes(_, _, _)
FileBytes(fb, mode, k) ==
    IF k >= fb.width * fb.height
    THEN <<>>
    ELSE LET row == k \div fb.width
             col == k % fb.width
             color == fb.pixels[fb.height - 1 - row][col]
         IN  <<ToUnsignedChar(mode, color[1] * 255),
               ToUnsignedChar(mode, color[2] * 255),
               ToUnsignedChar(mode, color[3] * 255)>> \o FileBytes(fb, mode, k + 1)

(* ------------------------------ Camera -------------------------------- *)
\* viewportToWorld(Vec3(u, v, nearZ)) with u = un / ud and v = vn / vd: a point
\* of the axis at depth nearZ from the eye, on the side the viewport coordinate
\* selects
viewportToWorld(cam, un, ud, vn, vd, nearZ) ==
    IF un * vd < vn * ud THEN cam.position - nearZ ELSE cam.position + nearZ

\* the primary ray of pixel (row, col): (col + 0.5) / width is (2 col + 1) / (2 width)
PrimaryRay(cam, fb, row, col) ==
    LET nearZ == cam.nearClip
        eyePosition == cam.position
        pixelWorldPosition ==
            viewportToWorld(cam, 2 * col + 1, 2 * fb.width, 2 * row + 1, 2 * fb.height, nearZ)
    IN  Ray(eyePosition, direction(eyePosition, pixelWorldPosition))

(* ------------------------------- state -------------------------------- *)
VARIABLES
    scene,        \* the Scene: objects and lights
    tracer,       \* the Tracer's five configuration fields
    renderCam,    \* the camera of the current or last pass
    frameBuffer,  \* width, height and pixels
    pc,           \* "idle" between passes, "trace" inside Tracer::trace
    nextRow,      \* the next row the dynamic schedule hands out
    thread,       \* per worker: place in the loops and its traceRay call stack
    writes,       \* per index, the setPixel calls of the current pass
    passes,       \* completed passes
    prev,         \* the pixels as they were when the current or last pass began
    ofs           \* the bytes of the last file written

vars == <<scene, tracer, renderCam, frameBuffer, pc, nextRow, thread, writes, passes,
          prev, ofs>>

Workers == 1..NumWorkers

NoColor == <<>>

NoReturn == [iteration |-> -1]

NoPrev == [passes |-> 0]

\* indices one past the buffer are kept to see a write outside it
Indices == (0..Height) \X (0..Width)

IdleThread ==
    [phase |-> "idle", row |-> 0, col |-> 0, stack |-> <<>>, pixelColor |-> NoColor,
     ret |-> NoReturn, calls |-> 0]

Init ==
    /\ scene \in Scenes
    /\ tracer \in Tracers
    /\ renderCam \in Cameras
    /\ frameBuffer \in {FrameBuffer(Width, Height, c) : c \in {SkyBlue}}
    /\ pc = "idle"
    /\ nextRow = 0
    /\ thread = [w \in Workers |-> IdleThread]
    /\ writes = [i \in Indices |-> 0]
    /\ passes = 0
    /\ prev = NoPrev
    /\ ofs = <<>>

(* ------------------------- Tracer::traceRay --------------------------- *)
\* a call of traceRay: its arguments, where it stands, and its locals
Frame(ray, iteration) ==
    [ray |-> ray, iteration |-> iteration, at |-> "enter",
     intersection |-> NoIntersection, reflectedColor |-> Black]

Top(stack) == stack[Len(stack)]

Pop(stack) == SubSeq(stack, 1, Len(stack) - 1)

\* the worker after its innermost traceRay call returned color: the caller
\* stores it in reflectedColor, trace stores it in pixelColor
Returned(th, color) ==
    LET done == Top(th.stack)
        rest == Pop(th.stack)
        ret == [ray |-> done.ray, iteration |-> done.iteration, color |-> color]
    IN  IF rest = <<>>
        THEN [th EXCEPT !.stack = rest, !.pixelColor = color, !.ret = ret]
        ELSE [th EXCEPT !.stack = [rest EXCEPT ![Len(rest)].reflectedColor = color,
                                               ![Len(rest)].at = "shade"],
                        !.ret = ret]

\* traceRay up to the recursive call: the cutoff, the nearest hit, the reflection
Entered(th) ==
    LET frame == Top(th.stack)
        nearest == findNearestIntersection(scene, frame.ray, NoIntersection)
        intersection == nearest.result
        depth == Len(th.stack)
    IN  IF DepthExceeded(tracer, frame.iteration)
        THEN Returned(th, Black)
        ELSE IF ~nearest.found
        THEN Returned(th, MissColor(tracer))
        ELSE IF Reflective(scene, intersection)
        THEN [th EXCEPT !.stack = [th.stack EXCEPT ![depth].at = "reflect",
                                                   ![depth].intersection = intersection]
                                  \o <<Frame(reflectRay(tracer, frame.ray, intersection),
                                             frame.iteration + 1)>>,
                        !.calls = th.calls + 1]
        ELSE [th EXCEPT !.stack = [th.stack EXCEPT ![depth].at = "shade",
                                                   ![depth].intersection = intersection]]

\* mutant of TraceRayEnter: the tracer counts the bounces left in its own field
TraceRayEnterCounting(w) ==
    /\ pc = "trace"
    /\ thread[w].stack # <<>>
    /\ Top(thread[w].stack).at = "enter"
    /\ thread' = [thread EXCEPT ![w] = Entered(thread[w])]
    /\ tracer' = [tracer EXCEPT !.maxNumReflections =
                      IF Len(thread'[w].stack) > Len(thread[w].stack) THEN @ - 1 ELSE @]
    /\ UNCHANGED <<scene, renderCam, frameBuffer, pc, nextRow, writes, passes, prev, ofs>>

TraceRayEnter(w) ==
    /\ pc = "trace"
    /\ thread[w].stack # <<>>
    /\ Top(thread[w].stack).at = "enter"
    /\ thread' = [thread EXCEPT ![w] = Entered(thread[w])]
    /\ UNCHANGED <<scene, tracer, renderCam, frameBuffer, pc, nextRow, writes, passes,
                   prev, ofs>>

\* traceRay after the reflected color is known: the lights and the blend
TraceRayShade(w) ==
    /\ pc = "trace"
    /\ thread[w].stack # <<>>
    /\ Top(thread[w].stack).at = "shade"
    /\ LET frame == Top(thread[w].stack)
       IN  thread' = [thread EXCEPT ![w] =
                         Returned(thread[w],
                                  Blend(tracer, scene, renderCam, frame.intersection,
                                        frame.reflectedColor))]
    /\ UNCHANGED <<scene, tracer, renderCam, frameBuffer, pc, nextRow, writes, passes,
                   prev, ofs>>

(* --------------------------- Tracer::trace ---------------------------- *)
RowInRange(fb, row) == row < fb.height

\* mutant of ColInRange: the column loop runs one column too far
ColInRangeInclusive(fb, col) == col <= fb.width

ColInRange(fb, col) == col < fb.width

\* trace is entered: the loop bounds are read and the row loop starts
BeginTrace ==
    /\ pc = "idle"
    /\ passes < MaxPasses
    /\ pc' = "trace"
    /\ nextRow' = 0
    /\ thread' = [w \in Workers |-> IdleThread]
    /\ writes' = [i \in Indices |-> 0]
    /\ prev' = [passes |-> passes, pixels |-> frameBuffer.pixels]
    /\ ofs' = <<>>
    /\ UNCHANGED <<scene, tracer, renderCam, frameBuffer, passes>>

\* omp for schedule(dynamic): a free worker is handed the next row, once, or
\* waits at the loop's end when no row is left
TakeRow(w) ==
    /\ pc = "trace"
    /\ thread[w].phase = "idle"
    /\ IF RowInRange(frameBuffer, nextRow)
       THEN /\ thread' = [thread EXCEPT ![w].phase = "row", ![w].row = nextRow,
                                        ![w].col = 0]
            /\ nextRow' = nextRow + 1
       ELSE /\ thread' = [thread EXCEPT ![w].phase = "barrier"]
            /\ UNCHANGED nextRow
    /\ UNCHANGED <<scene, tracer, renderCam, frameBuffer, pc, writes, passes, prev, ofs>>

\* the column loop's test, and the body up to the call traceRay(.., primaryRay, 0)
BeginPixel(w) ==
    /\ pc = "trace"
    /\ thread[w].phase = "row"
    /\ thread[w].stack = <<>>
    /\ thread[w].pixelColor = NoColor
    /\ IF ColInRange(frameBuffer, thread[w].col)
       THEN thread' = [thread EXCEPT
                ![w].stack = <<Frame(PrimaryRay(renderCam, frameBuffer, thread[w].row,
                                                thread[w].col), 0)>>,
                ![w].calls = 0,
                ![w].ret = NoReturn]
       ELSE thread' = [thread EXCEPT ![w].phase = "idle"]
    /\ UNCHANGED <<scene, tracer, renderCam, frameBuffer, pc, nextRow, writes, passes,
                   prev, ofs>>

\* frameBuffer.setPixel(row, col, pixelColor) and col++
SetPixel(w) ==
    /\ pc = "trace"
    /\ thread[w].pixelColor # NoColor
    /\ frameBuffer' = setColor(frameBuffer, thread[w].row, thread[w].col,
                               thread[w].pixelColor)
    /\ writes' = [writes EXCEPT ![<<thread[w].row, thread[w].col>>] = @ + 1]
    /\ thread' = [thread EXCEPT ![w].pixelColor = NoColor, ![w].col = @ + 1]
    /\ UNCHANGED <<scene, tracer, renderCam, pc, nextRow, passes, prev, ofs>>

\* every worker has left the loop: trace returns
EndTrace ==
    /\ pc = "trace"
    /\ \A w \in Workers : thread[w].phase = "barrier"
    /\ pc' = "idle"
    /\ passes' = passes + 1
    /\ UNCHANGED <<scene, tracer, renderCam, frameBuffer, nextRow, thread, writes, prev,
                   ofs>>

\* FrameBuffer::writeToFile after a pass
WriteToFile ==
    /\ pc = "idle"
    /\ passes > 0
    /\ ofs = <<>>
    /\ \E mode \in CastModes : ofs' = FileBytes(frameBuffer, mode, 0)
    /\ UNCHANGED <<scene, tracer, renderCam, frameBuffer, pc, nextRow, thread, writes,
                   passes, prev>>

Next ==
    \/ BeginTrace
    \/ \E w \in Workers : TakeRow(w)
    \/ \E w \in Workers : BeginPixel(w)
    \/ \E w \in Workers : TraceRayEnter(w)
    \/ \E w \in Workers : TraceRayShade(w)
    \/ \E w \in Workers : SetPixel(w)
    \/ EndTrace
    \/ WriteToFile

Spec == Init /\ [][Next]_vars

(* ------------------------------ claims -------------------------------- *)
\* the traceRay returns seen last, one per worker
Returns == {thread[w].ret : w \in Workers} \ {NoReturn}

\* the traceRay calls in progress
Frames == UNION {{thread[w].stack[k] : k \in 1..Len(thread[w].stack)} : w \in Workers}

\* the primitives of the scene that report an intersection for ray
Hitting(ray) == {i \in 1..getNumObjects(scene) : intersect(scene, i, ray).hit}

HitOf(i, ray) == intersect(scene, i, ray).intersection

\* C1: a traceRay call with iteration >= maxNumReflections returns pure black,
\* whatever the scene holds and whether or not its ray would hit anything
C1_CutoffReturnsBlack ==
    \A r \in Returns : r.iteration >= tracer.maxNumReflections => r.color = Black

\* C1 witness: a call at the cutoff returned black although its ray hits a primitive
C1_Witness ==
    \E r \in Returns :
        /\ r.iteration >= tracer.maxNumReflections
        /\ Hitting(r.ray) # {}
        /\ r.color = Black
        /\ tracer.backgroundColor # Black

\* C2 as stated: a traceRay call whose ray hits no primitive returns the
\* background color, for every tracer configuration
C2_Original ==
    \A r \in Returns : Hitting(r.ray) = {} => r.color = tracer.backgroundColor

\* C2 amended: a traceRay call with iteration < maxNumReflections whose ray hits
\* no primitive returns exactly the configured background color
C2_MissReturnsBackground ==
    \A r \in Returns :
        (Hitting(r.ray) = {} /\ r.iteration < tracer.maxNumReflections)
            => r.color = tracer.backgroundColor

\* C2 witness: below the cutoff, a ray missed every primitive of a scene that has
\* some, and the call returned the background color
C2_Witness ==
    \E r \in Returns :
        /\ r.iteration < tracer.maxNumReflections
        /\ getNumObjects(scene) > 0
        /\ Hitting(r.ray) = {}
        /\ r.color = tracer.backgroundColor

\* a result argument that differs from every hit and from Intersection{}
C3_Before == [object |-> 1, point |-> 9, normal |-> 1, t |-> 9]

\* the earliest primitive among those hit at the least t
C3_Winner(ray) ==
    CHOOSE i \in Hitting(ray) :
        \A j \in Hitting(ray) :
            \/ HitOf(i, ray).t < HitOf(j, ray).t
            \/ (HitOf(i, ray).t = HitOf(j, ray).t /\ i <= j)

\* C3: findNearestIntersection returns true with the hit of least t among the
\* primitives that report one, the earliest in scene order among equals, and
\* returns false with result untouched exactly when no primitive reports a hit
C3_NearestIsMinimal ==
    \A f \in Frames :
        LET got == findNearestIntersection(scene, f.ray, C3_Before)
        IN  IF Hitting(f.ray) = {}
            THEN ~got.found /\ got.result = C3_Before
            ELSE got.found /\ got.result = HitOf(C3_Winner(f.ray), f.ray)

\* C3 witness: a traced ray hits two primitives, the second of the scene strictly
\* nearer than the first, and a call has taken the second as its intersection
C3_Witness ==
    \E f \in Frames :
        /\ Hitting(f.ray) = {1, 2}
        /\ HitOf(2, f.ray).t < HitOf(1, f.ray).t
        /\ f.intersection = HitOf(2, f.ray)

\* C4's reading of the shadow test: another primitive is hit by the shadow ray
\* nearer to the ray's origin than the light is
C4_Claimed(intersection, light) ==
    LET shadowRay == ShadowRay(tracer, intersection, light)
    IN  \E i \in Hitting(shadowRay) :
            /\ i # intersection.object
            /\ distance(shadowRay.origin, HitOf(i, shadowRay).point)
                   < distance(shadowRay.origin, light.position)

\* the points being shaded: the hits of the calls in progress
C4_Shaded == {f.intersection : f \in {g \in Frames : g.at # "enter"}}

\* C4: isInShadow is true exactly when a primitive other than the shaded one is
\* hit by the shadow ray strictly nearer to its origin than the light
C4_ShadowIffOccluderBeforeLight ==
    \A x \in C4_Shaded : \A k \in 1..getNumLights(scene) :
        isInShadow(tracer, x, getLight(scene, k), scene) = C4_Claimed(x, getLight(scene, k))

InRange(i) == i[1] < frameBuffer.height /\ i[2] < frameBuffer.width

\* a pass has completed and trace has returned
PassDone == pc = "idle" /\ passes > 0

\* C5: in one pass setPixel is invoked once for each cell of the buffer and for
\* no other index, and however the rows are dealt to the workers no cell is
\* written twice
C5_EachCellWrittenOnce ==
    /\ \A i \in Indices : writes[i] <= 1
    /\ \A i \in Indices : ~InRange(i) => writes[i] = 0
    /\ PassDone => \A i \in Indices : InRange(i) => writes[i] = 1

\* C5 witness: a pass is complete in which two workers each traced a row
C5_Witness ==
    /\ PassDone
    /\ \A i \in Indices : InRange(i) => writes[i] = 1
    /\ \E v, w \in Workers :
           /\ thread[v].row # thread[w].row
           /\ thread[v].col = frameBuffer.width
           /\ thread[w].col = frameBuffer.width

\* the scheduling of the workers: a worker that can step eventually steps, and
\* trace returns once every worker has left the loop
WorkerStep(w) ==
    TakeRow(w) \/ BeginPixel(w) \/ TraceRayEnter(w) \/ TraceRayShade(w) \/ SetPixel(w)

\* the scenes of mutually reflective primitives: every primitive reflects, seen
\* by the camera that stands between the spheres, for every cutoff and both
\* reflection biases
InitReflective ==
    /\ Init
    /\ scene.objects = <<[center |-> 0, radius |-> 1, material |-> Mirror],
                         [center |-> 5, radius |-> 1, material |-> Mirror]>>
    /\ getNumLights(scene) = MaxLights
    /\ renderCam.position = 2
    /\ tracer.shadowBias = 0

FairSpec ==
    /\ InitReflective
    /\ [][Next]_vars
    /\ \A w \in Workers : WF_vars(WorkerStep(w))
    /\ WF_vars(EndTrace)

\* C6: a traceRay call started at iteration 0 makes at most maxNumReflections
\* recursive calls, one per invocation and each at iteration + 1, and returns;
\* so every pass that starts completes
C6_BoundedRecursionTerminates ==
    /\ [](\A w \in Workers :
            /\ thread[w].calls <= tracer.maxNumReflections
            /\ \A k \in 1..Len(thread[w].stack) : thread[w].stack[k].iteration = k - 1)
    /\ \A w \in Workers : (thread[w].stack # <<>>) ~> (thread[w].stack = <<>>)
    /\ (pc = "trace") ~> (pc = "idle")

\* C6 witness: the recursion is as deep as it gets, maxNumReflections calls below
\* the first one, and the ray of the deepest call again hits a reflective primitive
C6_Witness ==
    \E w \in Workers :
        /\ tracer.maxNumReflections >= 2
        /\ thread[w].calls = tracer.maxNumReflections
        /\ Len(thread[w].stack) = tracer.maxNumReflections + 1
        /\ LET ray == Top(thread[w].stack).ray
           IN  /\ Hitting(ray) # {}
               /\ Reflective(scene, HitOf(C3_Winner(ray), ray))

\* the sum of the terms of the first k lights for the hit x
RECURSIVE C7_LightSum(_, _)
C7_LightSum(x, k) ==
    IF k = 0
    THEN Black
    ELSE LET light == getLight(scene, k)
             m == material(scene, x)
         IN  ColorAdd(C7_LightSum(x, k - 1),
                      IF isInShadow(tracer, x, light, scene)
                      THEN tracer.shadowColor
                      ELSE ColorMul(computeIntensityAtPoint(light, x.point),
                                    ColorAdd(computeDiffuseColor(scene, x, light),
                                             computeSpecularColor(scene, x, light,
                                                                  renderCam))))

\* intrinsity * (ambient + the lights' terms) + reflectivity * reflected
C7_Expected(x, reflected) ==
    LET m == material(scene, x)
    IN  ColorAdd(ColorScale(m.intrinsity,
                            ColorAdd(m.ambientColor, C7_LightSum(x, getNumLights(scene)))),
                 ColorScale(m.reflectivity, reflected))

\* worker w's traceRay call for a ray that hits a primitive, below the cutoff,
\* returns in this step
C7_HitReturns(w) ==
    /\ thread[w].stack # <<>>
    /\ Len(thread'[w].stack) < Len(thread[w].stack)
    /\ Hitting(Top(thread[w].stack).ray) # {}
    /\ Top(thread[w].stack).iteration < tracer.maxNumReflections

\* C7: a call whose ray hits a primitive below the cutoff returns
\* intrinsity * (ambient + per light: shadowColor if isInShadow, else
\* intensity * (diffuse + specular)) + reflectivity * reflected, where reflected
\* is what traceRay returned for the reflected ray at iteration + 1 when the
\* reflectivity is positive, and black otherwise
C7_BlendOfLocalAndReflected ==
    [][\A w \in Workers :
          C7_HitReturns(w) =>
              LET frame == Top(thread[w].stack)
                  x == HitOf(C3_Winner(frame.ray), frame.ray)
                  child == thread[w].ret
              IN  IF material(scene, x).reflectivity > 0
                  THEN /\ child # NoReturn
                       /\ child.ray = reflectRay(tracer, frame.ray, x)
                       /\ child.iteration = frame.iteration + 1
                       /\ thread'[w].ret.color = C7_Expected(x, child.color)
                  ELSE thread'[w].ret.color = C7_Expected(x, Black)]_vars

\* C7 witness: a mirror (reflectivity 1, intrinsic weight 0) under a light that
\* is in shadow there has returned the color of what it reflects, a primitive
\* that is not black
C7_Witness ==
    \E w \in Workers :
        /\ thread[w].stack = <<>>
        /\ thread[w].ret # NoReturn
        /\ thread[w].ret.iteration = 0
        /\ tracer.maxNumReflections >= 2
        /\ Hitting(thread[w].ret.ray) # {}
        /\ LET x == HitOf(C3_Winner(thread[w].ret.ray), thread[w].ret.ray)
               reflected == reflectRay(tracer, thread[w].ret.ray, x)
           IN  /\ material(scene, x).reflectivity = 1
               /\ material(scene, x).intrinsity = 0
               /\ \E k \in 1..getNumLights(scene) :
                      isInShadow(tracer, x, getLight(scene, k), scene)
               /\ Hitting(reflected) # {}
               /\ thread[w].ret.color # Black
               /\ thread[w].ret.color # material(scene, x).ambientColor
               /\ thread[w].pixelColor = thread[w].ret.color

\* C8: a further pass with the same camera, scene and configuration leaves in
\* every cell the color the pass before it left, whatever the buffer held before
\* each pass and however the rows were dealt to the workers
C8_SecondPassIdentical ==
    (pc = "idle" /\ passes >= 2) => frameBuffer.pixels = prev.pixels

\* C8 witness: the second pass is complete, over a picture that is not of one
\* color and is not the buffer's initial content
C8_Witness ==
    /\ pc = "idle"
    /\ passes = 2
    /\ frameBuffer.pixels = prev.pixels
    /\ frameBuffer.pixels[0][0] # frameBuffer.pixels[1][0]
    /\ \A i \in Indices : InRange(i) => frameBuffer.pixels[i[1]][i[2]] # SkyBlue

\* clamp to the displayable range [0, 1]
C9_Clamp(x) == IF x < 0 THEN 0 ELSE IF x > 1 THEN 1 ELSE x

\* C9: every byte writeToFile emits is the component clamped to [0, 1] and
\* scaled by 255
C9_BytesClamped ==
    ofs # <<>> =>
        \A k \in 0..(frameBuffer.width * frameBuffer.height - 1) : \A c \in 1..3 :
            ofs[3 * k + c] =
                255 * C9_Clamp(frameBuffer.pixels
                                   [frameBuffer.height - 1 - (k \div frameBuffer.width)]
                                   [k % frameBuffer.width][c])

\* C10: trace changes nothing but frame buffer cells: the tracer's fields, the
\* scene and the camera are the same after every step of a pass, and no step,
\* setColor included, changes the buffer's width, height or shape
C10_OnlyCellsChange ==
    [][/\ pc = "trace" => (tracer' = tracer /\ scene' = scene /\ renderCam' = renderCam)
       /\ frameBuffer'.width = frameBuffer.width
       /\ frameBuffer'.height = frameBuffer.height
       /\ DOMAIN frameBuffer'.pixels = DOMAIN frameBuffer.pixels
       /\ \A row \in DOMAIN frameBuffer.pixels :
              DOMAIN frameBuffer'.pixels[row] = DOMAIN frameBuffer.pixels[row]]_vars

\* C10 witness: a pass is complete and has changed cells of the buffer
C10_Witness ==
    /\ PassDone
    /\ frameBuffer.pixels # prev.pixels
    /\ frameBuffer.width = Width
    /\ frameBuffer.height = Height

====
